---- MODULE Spec2Model ----
(***************************************************************************)
(* Model of the upload orchestrator (S3DragDropUpload.vue) and of the      *)
(* table projection (UploadsTable.vue) of or9/ai-app-components.           *)
(*                                                                         *)
(* JavaScript runs every handler to completion: an action below is one     *)
(* such run, from the event that starts it (a drop, a settled promise, an  *)
(* XHR event) to the next await that has to wait for the network.          *)
(***************************************************************************)
EXTENDS Integers, Sequences, FiniteSets, TLC

VARIABLES
    config,           \* props.config of the upload component
    act,              \* the handleFiles activations, one per entry point
    candidate,        \* the file last given to validateFile on its own
    validationError,  \* what validateFile returned for it
    columns,          \* props.columns of the table
    uploads,          \* props.uploads of the table
    filterText,       \* the table's filter text
    sortKey,          \* the table's sort key
    sortDirection,    \* the table's sort direction
    clicks            \* the header clicks observed so far, with their outcome

vars == <<config, act, candidate, validationError,
          columns, uploads, filterText, sortKey, sortDirection, clicks>>
uploadVars == <<config, act>>
validateVars == <<candidate, validationError>>
tableVars == <<columns, uploads, filterText, sortKey, sortDirection, clicks>>

----------------------------------------------------------------------------
(* Bounds *)

\* Files selected in total, over all activations.
MaxFiles == 3
\* Largest file size / size limit, in MB, of the files and configs drawn.
MaxSizeMB == 3
\* Records given to the table.
MaxUploads == 3
\* Header clicks observed.
MaxClicks == 4

----------------------------------------------------------------------------
(* Values *)

MB == 1048576
Undefined == "undefined"
Null == "null"
Types == {"image/png", "text/plain"}

\* The two callers of handleFiles: handleDrop and handleInputChange.
Activations == {"drop", "change"}

File(n, s, t) == [name |-> n, size |-> s, type |-> t]

\* The config the orchestration runs under, and the files a user selects:
\* one that passes validation, one too large, one of a type not allowed.
UploadConfig ==
    [presignedUrlEndpoint |-> "/presign", maxFileSize |-> 2 * MB,
     allowedTypes |-> <<"image/png">>]
SelectableFiles ==
    { File("a.png", 2 * MB, "image/png"),
      File("big.png", 3 * MB, "image/png"),
      File("notes.txt", MB, "text/plain") }

RECURSIVE SeqsUpTo(_, _)
SeqsUpTo(S, n) ==
    IF n = 0 THEN {<<>>}
    ELSE LET shorter == SeqsUpTo(S, n - 1)
         IN  shorter \cup {Append(s, e) : s \in {q \in shorter : Len(q) = n - 1}, e \in S}

Range(s) == {s[k] : k \in DOMAIN s}

----------------------------------------------------------------------------
(* S3DragDropUpload.vue *)

\* An optional number of the config is truthy when it is present and not 0.
Truthy(cfg, field) == field \in DOMAIN cfg /\ cfg[field] # 0
\* `list?.length` is truthy when the list is present and not empty.
NonEmpty(cfg, field) == field \in DOMAIN cfg /\ Len(cfg[field]) # 0

\* maxSizeMB: maxFileSize / (1024 * 1024), or 100 when maxFileSize is falsy.
\* The quotient is kept exact: "n" when it is whole, "n/1048576" otherwise.
maxSizeMB(cfg) ==
    IF Truthy(cfg, "maxFileSize")
    THEN IF cfg.maxFileSize % MB = 0
         THEN ToString(cfg.maxFileSize \div MB)
         ELSE ToString(cfg.maxFileSize) \o "/" \o ToString(MB)
    ELSE "100"

SizeMessage(cfg) == "File exceeds maximum size of " \o maxSizeMB(cfg) \o "MB"
TypeMessage(file) == "File type " \o file.type \o " is not allowed"

\* validateFile: `maxFileSize && ...` is false for undefined and for 0;
\* `allowedTypes?.length && ...` is false for undefined and for [].
validateFile(file, cfg) ==
    IF Truthy(cfg, "maxFileSize")
       /\ file.size > cfg.maxFileSize
    THEN SizeMessage(cfg)
    ELSE IF NonEmpty(cfg, "allowedTypes")
            /\ file.type \notin Range(cfg.allowedTypes)
    THEN TypeMessage(file)
    ELSE Null

\* createUploadFile. id (random) and uploadedAt (the clock) play no part in
\* the orchestration and are left out of the record; s3Key and error start
\* absent.
createUploadFile(file) ==
    [name |-> file.name, size |-> file.size, type |-> file.type,
     s3Key |-> Undefined, status |-> "pending", progress |-> 0,
     error |-> Undefined]

\* Math.round(n / d * 100) for n >= 0, d > 0: floor(x + 0.5).
RoundPercent(n, d) == (200 * n + d) \div (2 * d)

\* emit(ev, uploadFile): the host is called synchronously and sees the
\* record as it is now.  idx is the record's place in the batch.
Emit(a, ev, i) ==
    [a EXCEPT !.log = Append(@, [ev |-> ev, idx |-> i,
                                 status |-> a.uploadFiles[i].status,
                                 progress |-> a.uploadFiles[i].progress])]

\* emit("files-selected", uploadFiles): carries the whole batch.
EmitSelected(a) ==
    [a EXCEPT !.log = Append(@, [ev |-> "files-selected", idx |-> 0,
                                 files |-> a.uploadFiles])]

\* A request put on the network for record i: fetch (POST) or xhr.send (PUT).
Request(a, method, i) ==
    [a EXCEPT !.log = Append(@, [ev |-> method, idx |-> i,
                                 status |-> a.uploadFiles[i].status,
                                 progress |-> a.uploadFiles[i].progress])]

\* One call of uploadToS3: where it stands (none, fetch, json, xhr,
\* returned), how the fetch settled, the uploadUrl and key destructured from
\* the response, and the e.loaded of the last progress event.
NoUpload == [pc |-> "none", answer |-> Undefined, uploadUrl |-> Undefined,
             key |-> Undefined, loaded |-> 0]

\* uploadToS3 up to its first await: status, upload-start, fetch.
uploadToS3(a, i) ==
    LET a1 == [a EXCEPT !.uploadFiles[i].status = "uploading"]
        a2 == Emit(a1, "upload-start", i)
        a3 == Request(a2, "POST", i)
    IN  [a3 EXCEPT !.up[i].pc = "fetch"]

\* Mutant: the loop without its await, every valid file started at once.
RECURSIVE UploadAllAtOnce(_, _)
UploadAllAtOnce(a, i) ==
    IF i > Len(a.uploadFiles) THEN a
    ELSE IF a.uploadFiles[i].status = "pending"
         THEN UploadAllAtOnce(uploadToS3(a, i), i + 1)
         ELSE UploadAllAtOnce(a, i + 1)

\* Mutant: the loop without its status test, records in error are uploaded
\* as well.
UploadEveryFile(a, i) ==
    IF i > Len(a.uploadFiles) THEN [a EXCEPT !.pc = "done"]
    ELSE uploadToS3(a, i)

\* The upload loop of handleFiles from index i (1-based here) to its next
\* await: files whose record is in error are skipped, the first other one is
\* started and awaited; past the last one handleFiles returns.
RECURSIVE UploadValidFiles(_, _)
UploadValidFiles(a, i) ==
    IF i > Len(a.uploadFiles) THEN [a EXCEPT !.pc = "done"]
    ELSE IF a.uploadFiles[i].status # "error"
         THEN uploadToS3(a, i)
         ELSE UploadValidFiles(a, i + 1)

\* uploadToS3 returns for record i: the await in handleFiles resumes.
Returned(a, i) ==
    UploadValidFiles([a EXCEPT !.up[i].pc = "returned"], i + 1)

\* Mutant: a catch block that rethrows, so that handleFiles ends there.
CatchAndRethrow(a, i, message) ==
    LET a1 == [a EXCEPT !.uploadFiles[i].status = "error",
                        !.uploadFiles[i].error = message,
                        !.up[i].pc = "returned",
                        !.pc = "done"]
    IN  Emit(a1, "upload-error", i)

\* Mutant: a catch block that reports the error but leaves the status.
CatchKeepStatus(a, i, message) ==
    LET a1 == [a EXCEPT !.uploadFiles[i].error = message]
    IN  Returned(Emit(a1, "upload-error", i), i)

\* The catch block of uploadToS3.
Catch(a, i, message) ==
    LET a1 == [a EXCEPT !.uploadFiles[i].status = "error",
                        !.uploadFiles[i].error = message]
    IN  Returned(Emit(a1, "upload-error", i), i)

\* Mutant: completion that leaves progress where the last event put it.
CompleteKeepProgress(a, i) ==
    LET a1 == [a EXCEPT !.uploadFiles[i].status = "completed"]
    IN  Returned(Emit(a1, "upload-complete", i), i)

\* The end of the try block of uploadToS3, after the transfer resolved.
Complete(a, i) ==
    LET a1 == [a EXCEPT !.uploadFiles[i].status = "completed",
                        !.uploadFiles[i].progress = 100]
    IN  Returned(Emit(a1, "upload-complete", i), i)

\* Mutant: the first loop without the validation.
SelectedRecordUnchecked(file, cfg) == createUploadFile(file)

\* The first loop of handleFiles: one record per file, invalid ones in error.
SelectedRecord(file, cfg) ==
    LET uploadFile == createUploadFile(file)
        verdict == validateFile(file, cfg)
    IN  IF verdict # Null
        THEN [uploadFile EXCEPT !.status = "error", !.error = verdict]
        ELSE uploadFile

Idle == [pc |-> "idle", files |-> <<>>, uploadFiles |-> <<>>, up |-> <<>>,
         log |-> <<>>]

\* The activation after the first loop of handleFiles.
Selected(files, cfg) ==
    [pc |-> "running", files |-> files,
     uploadFiles |-> [k \in DOMAIN files |-> SelectedRecord(files[k], cfg)],
     up |-> [k \in DOMAIN files |-> NoUpload],
     log |-> <<>>]

\* Mutant: files-selected emitted after the upload loop was entered.
handleFilesEmitLate(files, cfg) ==
    IF Len(files) = 0 THEN [Idle EXCEPT !.pc = "done"]
    ELSE EmitSelected(UploadValidFiles(Selected(files, cfg), 1))

\* handleFiles(files), to its first await: nothing for an empty selection;
\* otherwise the records, files-selected, and the upload loop.
handleFiles(files, cfg) ==
    IF Len(files) = 0 THEN [Idle EXCEPT !.pc = "done"]
    ELSE UploadValidFiles(EmitSelected(Selected(files, cfg)), 1)

FilesSelectedSoFar ==
    LET n(c) == Len(act[c].files) IN n("drop") + n("change")

\* handleDrop / handleInputChange: the user drops or picks `files`.
HandleSelection(c, files) ==
    /\ act[c].pc = "idle"
    /\ FilesSelectedSoFar + Len(files) <= MaxFiles
    /\ act' = [act EXCEPT ![c] = handleFiles(files, config)]
    /\ UNCHANGED <<config, validateVars, tableVars>>

\* How the fetch of the presigned URL can settle.
FetchOutcomes == {"rejected", "notOk", "ok"}

\* `await fetch(...)` settles for record i.
FetchSettled(c, i, outcome) ==
    /\ i \in DOMAIN act[c].up
    /\ act[c].up[i].pc = "fetch"
    /\ act' = [act EXCEPT ![c] =
         LET a1 == [@ EXCEPT !.up[i].answer = outcome]
         IN  CASE outcome = "rejected" -> Catch(a1, i, "Failed to fetch")
               [] outcome = "notOk" ->
                     Catch(a1, i, "Failed to get presigned URL")
               [] outcome = "ok" -> [a1 EXCEPT !.up[i].pc = "json"]]
    /\ UNCHANGED <<config, validateVars, tableVars>>

\* What the body of an ok response can be: not JSON, the JSON null, a JSON
\* object without the two fields, or the expected {uploadUrl, key}.
Body(kind, uploadUrl, key) ==
    [kind |-> kind, uploadUrl |-> uploadUrl, key |-> key]
Bodies == { Body("notJSON", Undefined, Undefined),
            Body("null", Undefined, Undefined),
            Body("object", Undefined, Undefined),
            Body("object", "https://bucket/put", "uploads/key") }

\* Mutant: the key is not stored on the record when the response is read.
DestructuredKeyDropped(a, i, body) ==
    LET a1 == [a EXCEPT !.up[i].pc = "xhr",
                        !.up[i].uploadUrl = body.uploadUrl,
                        !.up[i].key = body.key]
    IN  Request(a1, "PUT", i)

\* uploadToS3 from the parsed body to the await of the transfer: uploadUrl
\* and key are destructured (undefined when the body lacks them), the key is
\* stored on the record, and the PUT is sent: xhr.open takes any value as a
\* URL, undefined becoming the relative URL "undefined".
Destructured(a, i, body) ==
    LET a1 == [a EXCEPT !.uploadFiles[i].s3Key = body.key,
                        !.up[i].pc = "xhr",
                        !.up[i].uploadUrl = body.uploadUrl,
                        !.up[i].key = body.key]
    IN  Request(a1, "PUT", i)

\* `await presignResponse.json()` settles for record i: it rejects when the
\* body is not JSON, and destructuring null throws.
JsonSettled(c, i, body) ==
    /\ i \in DOMAIN act[c].up
    /\ act[c].up[i].pc = "json"
    /\ act' = [act EXCEPT ![c] =
         CASE body.kind = "notJSON" ->
                 Catch([@ EXCEPT !.up[i].answer = "notJSON"], i,
                       "Unexpected token")
           [] body.kind = "null" ->
                 Catch([@ EXCEPT !.up[i].answer = "null"], i,
                       "Cannot destructure property 'uploadUrl' of null")
           [] body.kind = "object" -> Destructured(@, i, body)]
    /\ UNCHANGED <<config, validateVars, tableVars>>

\* The progress listener: e.loaded grows up to e.total, the size of the body;
\* e.lengthComputable is false for an empty body.
XhrProgress(c, i, loaded) ==
    /\ i \in DOMAIN act[c].up
    /\ act[c].up[i].pc = "xhr"
    /\ loaded > act[c].up[i].loaded
    /\ loaded <= act[c].files[i].size
    /\ loaded % MB = 0
    /\ act[c].files[i].size # 0
    /\ act' = [act EXCEPT ![c] =
         LET a1 == [@ EXCEPT !.uploadFiles[i].progress =
                                RoundPercent(loaded, act[c].files[i].size),
                             !.up[i].loaded = loaded]
         IN  Emit(a1, "upload-progress", i)]
    /\ UNCHANGED <<config, validateVars, tableVars>>

HttpStatuses == {200, 403}

\* The load listener: resolve on 2xx, reject otherwise.
XhrLoad(c, i, status) ==
    /\ i \in DOMAIN act[c].up
    /\ act[c].up[i].pc = "xhr"
    /\ act' = [act EXCEPT ![c] =
         IF status >= 200 /\ status < 300
         THEN Complete(@, i)
         ELSE Catch(@, i, "Upload failed with status " \o ToString(status))]
    /\ UNCHANGED <<config, validateVars, tableVars>>

\* The error listener.
XhrError(c, i) ==
    /\ i \in DOMAIN act[c].up
    /\ act[c].up[i].pc = "xhr"
    /\ act' = [act EXCEPT ![c] = Catch(@, i, "Upload failed")]
    /\ UNCHANGED <<config, validateVars, tableVars>>

\* validateFile applied to one file on its own.
Validate(file) ==
    /\ candidate' = file
    /\ validationError' = validateFile(file, config)
    /\ UNCHANGED <<uploadVars, tableVars>>

----------------------------------------------------------------------------
(* UploadsTable.vue.  Strings that are searched or compared are sequences  *)
(* of characters.                                                          *)

s_pending == <<"p", "e", "n", "d", "i", "n", "g">>
s_uploading == <<"u", "p", "l", "o", "a", "d", "i", "n", "g">>
s_completed == <<"c", "o", "m", "p", "l", "e", "t", "e", "d">>
s_error == <<"e", "r", "r", "o", "r">>
s_imagePng == <<"i", "m", "a", "g", "e", "/", "p", "n", "g">>
s_textPlain == <<"t", "e", "x", "t", "/", "p", "l", "a", "i", "n">>

Column(k, sortable, filterable) ==
    [key |-> k, sortable |-> sortable, filterable |-> filterable]

defaultColumns ==
    << Column("name", TRUE, TRUE), Column("size", TRUE, FALSE),
       Column("type", TRUE, TRUE), Column("status", TRUE, TRUE),
       Column("uploadedAt", TRUE, FALSE) >>

\* The upper-case letters of the strings drawn, and their lower case.
LowerCaseOf ==
    [ch \in {"A", "G", "N", "P"} |->
        CASE ch = "A" -> "a" [] ch = "G" -> "g" [] ch = "N" -> "n"
          [] ch = "P" -> "p"]

\* String.prototype.toLowerCase.
toLowerCase(str) ==
    [k \in DOMAIN str |->
        IF str[k] \in DOMAIN LowerCaseOf THEN LowerCaseOf[str[k]] ELSE str[k]]

\* String.prototype.includes.
includes(str, search) ==
    \E k \in 0..(Len(str) - Len(search)) :
        SubSeq(str, k + 1, k + Len(search)) = search

\* Mutant: the filter without toLowerCase on the record's fields.
MatchesCaseSensitive(upload, search) ==
    \/ includes(upload.name, search)
    \/ includes(upload.type, search)
    \/ includes(upload.status, search)

\* The predicate of the filter, search being the lower-cased filter text.
Matches(upload, search) ==
    \/ includes(toLowerCase(upload.name), search)
    \/ includes(toLowerCase(upload.type), search)
    \/ includes(toLowerCase(upload.status), search)

\* Array.prototype.filter.
RECURSIVE Filter(_, _)
Filter(list, search) ==
    IF list = <<>> THEN <<>>
    ELSE IF Matches(Head(list), search)
         THEN <<Head(list)>> \o Filter(Tail(list), search)
         ELSE Filter(Tail(list), search)

\* The order localeCompare gives the characters drawn: punctuation before
\* letters, letters alphabetically, case only breaking ties.
Collation ==
    << ".", "/", "a", "b", "c", "d", "e", "g", "i", "l", "m", "n", "o", "p",
       "r", "t", "u", "x" >>
Primary(ch) == CHOOSE k \in DOMAIN Collation : Collation[k] = ch

\* Sign of the lexicographic comparison of two sequences of numbers.
RECURSIVE LexCompare(_, _)
LexCompare(x, y) ==
    IF x = <<>> /\ y = <<>> THEN 0
    ELSE IF x = <<>> THEN -1
    ELSE IF y = <<>> THEN 1
    ELSE IF Head(x) # Head(y) THEN (IF Head(x) < Head(y) THEN -1 ELSE 1)
    ELSE LexCompare(Tail(x), Tail(y))

\* String.prototype.localeCompare: by letters first, then lower case before
\* upper case.
localeCompare(x, y) ==
    LET px == [k \in DOMAIN x |-> Primary(toLowerCase(x)[k])]
        py == [k \in DOMAIN y |-> Primary(toLowerCase(y)[k])]
        cx == [k \in DOMAIN x |-> IF x[k] \in DOMAIN LowerCaseOf THEN 1 ELSE 0]
        cy == [k \in DOMAIN y |-> IF y[k] \in DOMAIN LowerCaseOf THEN 1 ELSE 0]
    IN  IF LexCompare(px, py) # 0 THEN LexCompare(px, py)
        ELSE LexCompare(cx, cy)

\* The comparator of the sort: 0 for identical values, the difference for
\* two dates or two numbers, localeCompare otherwise; negated for desc.
Compare(x, y, key, direction) ==
    LET aVal == x[key]
        bVal == y[key]
        comparison ==
            IF aVal = bVal THEN 0
            ELSE IF key \in {"uploadedAt", "size"} THEN aVal - bVal
            ELSE localeCompare(aVal, bVal)
    IN  IF direction = "asc" THEN comparison ELSE 0 - comparison

\* One element put into a sorted list, behind the elements it does not
\* precede.
RECURSIVE Insert(_, _, _, _)
Insert(sorted, x, key, direction) ==
    IF sorted = <<>> THEN <<x>>
    ELSE LET last == sorted[Len(sorted)] IN
         IF Compare(last, x, key, direction) > 0
         THEN Append(Insert(SubSeq(sorted, 1, Len(sorted) - 1), x, key,
                            direction), last)
         ELSE Append(sorted, x)

\* The elements of a list in the opposite order.
Reverse(list) == [k \in DOMAIN list |-> list[Len(list) + 1 - k]]

\* Mutant: desc done by sorting ascending and reversing the result.
RECURSIVE SortThenReverse(_, _, _)
SortThenReverse(list, key, direction) ==
    IF direction = "desc" THEN Reverse(SortThenReverse(list, key, "asc"))
    ELSE IF list = <<>> THEN <<>>
    ELSE Insert(SortThenReverse(SubSeq(list, 1, Len(list) - 1), key, "asc"),
                list[Len(list)], key, "asc")

\* Array.prototype.sort with the comparator: a stable sort.
RECURSIVE Sort(_, _, _)
Sort(list, key, direction) ==
    IF list = <<>> THEN <<>>
    ELSE Insert(Sort(SubSeq(list, 1, Len(list) - 1), key, direction),
                list[Len(list)], key, direction)

\* The computed filteredAndSortedUploads.
filteredAndSortedUploads ==
    LET result == IF filterText # <<>>
                  THEN Filter(uploads, toLowerCase(filterText))
                  ELSE uploads
    IN  Sort(result, sortKey, sortDirection)

\* The records a host gives the table.
Upload(id, name, size, type, status, at) ==
    [id |-> id, name |-> name, size |-> size, type |-> type,
     status |-> status, uploadedAt |-> at]
TableRecords ==
    { Upload("r1", <<"a", ".", "p", "n", "g">>, 2 * MB, s_imagePng,
             s_completed, 1),
      Upload("r2", <<"b", ".", "t", "x", "t">>, MB, s_textPlain,
             s_pending, 2),
      Upload("r3", <<"A", ".", "P", "N", "G">>, MB, <<>>, s_error, 2),
      Upload("r4", <<"p", "n">>, 0, s_textPlain, s_uploading, 3) }

\* What is typed into the filter input.
FilterTexts ==
    { <<>>, <<"p", "n", "g">>, <<"P", "N", "G">>, <<"P", "n">>, <<"a">>,
      <<"e", "r", "r">>, <<"i", "n", "g">>, <<"x">>, <<"/">>, <<"g", "p">> }

\* The columns a host can give: none (the default ones), or columns none of
\* which is filterable.
ColumnSets ==
    { defaultColumns,
      << Column("name", TRUE, FALSE), Column("status", TRUE, FALSE),
         Column("size", FALSE, FALSE) >> }

\* The host adds a record to props.uploads.
AddUpload(upload) ==
    /\ Len(uploads) < MaxUploads
    /\ \A k \in DOMAIN uploads : uploads[k].id # upload.id
    /\ uploads' = Append(uploads, upload)
    /\ UNCHANGED <<columns, filterText, sortKey, sortDirection, clicks>>
    /\ UNCHANGED <<uploadVars, validateVars>>

\* v-model="filterText": the user edits the filter input.
SetFilter(text) ==
    /\ filterText' = text
    /\ UNCHANGED <<columns, uploads, sortKey, sortDirection, clicks>>
    /\ UNCHANGED <<uploadVars, validateVars>>

\* Mutant: a new key is adopted without resetting the direction.
handleSortKeepDirection(key) ==
    IF sortKey = key
    THEN /\ sortDirection' = IF sortDirection = "asc" THEN "desc" ELSE "asc"
         /\ UNCHANGED sortKey
    ELSE /\ sortKey' = key
         /\ UNCHANGED sortDirection

\* handleSort(key).
handleSort(key) ==
    IF sortKey = key
    THEN /\ sortDirection' = IF sortDirection = "asc" THEN "desc" ELSE "asc"
         /\ UNCHANGED sortKey
    ELSE /\ sortKey' = key
         /\ sortDirection' = "asc"

\* The template calls handleSort only for a column that is sortable.
Sortable(key) ==
    \E k \in DOMAIN columns : columns[k].key = key /\ columns[k].sortable

\* The click on a sortable column's header.
HandleSort(key) ==
    /\ Sortable(key)
    /\ handleSort(key)
    /\ UNCHANGED <<columns, uploads, filterText, clicks>>
    /\ UNCHANGED <<uploadVars, validateVars>>

\* The same click, observed: the key requested and the sort key and
\* direction the table has after it are appended to clicks.
HeaderClick(key) ==
    /\ Len(clicks) < MaxClicks
    /\ Sortable(key)
    /\ handleSort(key)
    /\ clicks' = Append(clicks, [key |-> key, sortKey |-> sortKey',
                                 direction |-> sortDirection'])
    /\ UNCHANGED <<columns, uploads, filterText>>
    /\ UNCHANGED <<uploadVars, validateVars>>

----------------------------------------------------------------------------
(* Specifications *)

NoTable ==
    /\ columns = defaultColumns
    /\ uploads = <<>>
    /\ filterText = <<>>
    /\ sortKey = "uploadedAt"
    /\ sortDirection = "desc"
    /\ clicks = <<>>

NoValidation ==
    /\ candidate = File("", 0, "")
    /\ validationError = Undefined

Init ==
    /\ config = UploadConfig
    /\ act = [c \in Activations |-> Idle]
    /\ NoValidation
    /\ NoTable

Selections == SeqsUpTo(SelectableFiles, MaxFiles)
Loads == {k * MB : k \in 1..MaxSizeMB}

Next ==
    \/ \E c \in Activations, files \in Selections : HandleSelection(c, files)
    \/ \E c \in Activations, i \in 1..MaxFiles, o \in FetchOutcomes :
          FetchSettled(c, i, o)
    \/ \E c \in Activations, i \in 1..MaxFiles, b \in Bodies :
          JsonSettled(c, i, b)
    \/ \E c \in Activations, i \in 1..MaxFiles, l \in Loads :
          XhrProgress(c, i, l)
    \/ \E c \in Activations, i \in 1..MaxFiles, s \in HttpStatuses :
          XhrLoad(c, i, s)
    \/ \E c \in Activations, i \in 1..MaxFiles : XhrError(c, i)

Spec == Init /\ [][Next]_vars

\* validateFile on its own, over every config and file drawn.
ByteSizes == {0, 1} \cup {k * MB : k \in 1..MaxSizeMB}
TypeLists ==
    { <<>>, <<"image/png">>, <<"text/plain">>, <<"image/png", "text/plain">> }
Configs ==
    LET base == [presignedUrlEndpoint |-> "/presign"]
        withSize == {base} \cup {("maxFileSize" :> m) @@ base : m \in ByteSizes}
    IN  withSize \cup {("allowedTypes" :> t) @@ cfg : t \in TypeLists,
                                                      cfg \in withSize}
CandidateFiles ==
    {File("f", size, t) : size \in ByteSizes, t \in Types \cup {""}}

InitValidate ==
    /\ config \in Configs
    /\ act = [c \in Activations |-> Idle]
    /\ candidate = File("", 0, "")
    /\ validationError = Undefined
    /\ NoTable

NextValidate == \E file \in CandidateFiles : Validate(file)

ValidateSpec == InitValidate /\ [][NextValidate]_vars

\* The table on its own.
InitTable ==
    /\ config = UploadConfig
    /\ act = [c \in Activations |-> Idle]
    /\ NoValidation
    /\ columns \in ColumnSets
    /\ uploads = <<>>
    /\ filterText = <<>>
    /\ sortKey = "uploadedAt"
    /\ sortDirection = "desc"
    /\ clicks = <<>>

NextTable ==
    \/ \E upload \in TableRecords : AddUpload(upload)
    \/ \E text \in FilterTexts : SetFilter(text)
    \/ \E key \in {"name", "size", "type", "status", "uploadedAt"} :
          HandleSort(key)

TableSpec == InitTable /\ [][NextTable]_vars

\* The header clicks on their own, observed.
ColumnKeys == {"name", "size", "type", "status", "uploadedAt"}
NextSort == \E key \in ColumnKeys : HeaderClick(key)

SortSpec == InitTable /\ [][NextSort]_vars

\* Every network call answers in the end: a pending fetch settles, a pending
\* body read settles, a transfer loads or fails.  Selections and progress
\* events are never forced.
Answers(c) ==
    /\ WF_vars(\E i \in 1..MaxFiles, o \in FetchOutcomes : FetchSettled(c, i, o))
    /\ WF_vars(\E i \in 1..MaxFiles, b \in Bodies : JsonSettled(c, i, b))
    /\ WF_vars(\E i \in 1..MaxFiles :
                  XhrError(c, i) \/ \E s \in HttpStatuses : XhrLoad(c, i, s))

FairSpec == Init /\ [][Next]_vars /\ \A c \in Activations : Answers(c)

----------------------------------------------------------------------------
(* Claims about the upload orchestrator *)

Terminal(status) == status \in {"completed", "error"}
Ends == {"upload-complete", "upload-error"}
Notifications == {"upload-start", "upload-progress"} \cup Ends
Requests == {"POST", "PUT"}

\* The places of the log of activation a that hold an event of evs for record i.
Places(a, evs, i) ==
    {p \in DOMAIN a.log : a.log[p].ev \in evs /\ a.log[p].idx = i}
Attempted(a, i) == Places(a, {"upload-start"}, i) # {}
Valid(a, i) == validateFile(a.files[i], config) = Null
Uploading(a) == {i \in DOMAIN a.uploadFiles : a.uploadFiles[i].status = "uploading"}

\* C1: within one handleFiles call the uploads are strictly sequential: at
\* most one record of the batch is uploading; when the upload of a record
\* starts, every record before it was rejected by validation or has had its
\* upload-complete or upload-error; and every notification and request for a
\* record comes before every one for a later record, none after its end.
C1_Sequential ==
    \A c \in Activations :
        LET a == act[c] IN
        /\ Cardinality(Uploading(a)) <= 1
        /\ \A q \in DOMAIN a.log :
              a.log[q].ev = "upload-start" =>
                 \A k \in 1..(a.log[q].idx - 1) :
                    \/ ~Valid(a, k)
                    \/ \E p \in Places(a, Ends, k) : p < q
        /\ \A p, q \in DOMAIN a.log :
              (p < q /\ a.log[p].idx > 0) => a.log[p].idx <= a.log[q].idx
        /\ \A p, q \in DOMAIN a.log :
              (p < q /\ a.log[p].ev \in Ends) => a.log[q].idx # a.log[p].idx

\* Two records of one batch have both been started.
C1_Witness ==
    \E c \in Activations : \E i, j \in DOMAIN act[c].uploadFiles :
        i < j /\ Attempted(act[c], i) /\ Attempted(act[c], j)

\* C2: a failure never aborts the batch: when handleFiles has returned,
\* every record that passed validation was attempted and every record is
\* completed or error; and, the network calls answering, a running
\* handleFiles does return.
C2_BatchCompletes ==
    /\ [](\A c \in Activations :
            act[c].pc = "done" =>
               \A i \in DOMAIN act[c].uploadFiles :
                  /\ Terminal(act[c].uploadFiles[i].status)
                  /\ Valid(act[c], i) => Attempted(act[c], i))
    /\ \A c \in Activations : (act[c].pc = "running") ~> (act[c].pc = "done")

\* Three valid files, the second transfer failed: completed, error, completed.
C2_Witness ==
    \E c \in Activations :
        /\ act[c].pc = "done"
        /\ Len(act[c].uploadFiles) = 3
        /\ \A i \in 1..3 : Valid(act[c], i)
        /\ [i \in 1..3 |-> act[c].uploadFiles[i].status]
              = <<"completed", "error", "completed">>
        /\ act[c].uploadFiles[2].error = "Upload failed"

\* C3: a file that fails validation has its record in error with the
\* validation message already in files-selected, and nothing is ever emitted
\* or requested for that record: no upload-start, no POST, no PUT.
C3_InvalidNeverUploaded ==
    \A c \in Activations : \A i \in DOMAIN act[c].files :
        LET a == act[c] IN
        ~Valid(a, i) =>
           /\ a.uploadFiles[i].status = "error"
           /\ a.uploadFiles[i].error = validateFile(a.files[i], config)
           /\ a.log[1].files[i].status = "error"
           /\ a.log[1].files[i].error = validateFile(a.files[i], config)
           /\ Places(a, Notifications \cup Requests, i) = {}

\* A batch with a rejected file before a valid one has run to its end.
C3_Witness ==
    \E c \in Activations : \E i, j \in DOMAIN act[c].files :
        /\ i < j /\ ~Valid(act[c], i) /\ Valid(act[c], j)
        /\ act[c].pc = "done"

\* C4: a non-empty selection emits files-selected exactly once, first of
\* all that the batch emits or requests, carrying one record per file in
\* selection order, valid ones pending and invalid ones in error.
C4_SelectedOnceFirst ==
    \A c \in Activations :
        LET a == act[c] IN
        Len(a.files) > 0 =>
           /\ a.log[1].ev = "files-selected"
           /\ \A p \in DOMAIN a.log : a.log[p].ev = "files-selected" => p = 1
           /\ Len(a.log[1].files) = Len(a.files)
           /\ \A k \in DOMAIN a.files :
                 /\ a.log[1].files[k].name = a.files[k].name
                 /\ a.log[1].files[k].status =
                       IF Valid(a, k) THEN "pending" ELSE "error"

\* A batch of a valid and a rejected file whose upload has started.
C4_Witness ==
    \E c \in Activations : \E i, j \in DOMAIN act[c].files :
        /\ Valid(act[c], i) /\ ~Valid(act[c], j)
        /\ Attempted(act[c], i)

Advances ==
    { <<"pending", "uploading">>, <<"uploading", "completed">>,
      <<"uploading", "error">>, <<"pending", "error">> }

\* C5: a record's status only advances: every step leaves it as it is or
\* takes it pending->uploading, uploading->completed, uploading->error or
\* pending->error; completed and error are never left.
C5_StatusAdvances ==
    [][\A c \in Activations : \A i \in DOMAIN act[c].uploadFiles :
          /\ i \in DOMAIN act'[c].uploadFiles
          /\ \/ act'[c].uploadFiles[i].status = act[c].uploadFiles[i].status
             \/ <<act[c].uploadFiles[i].status,
                  act'[c].uploadFiles[i].status>> \in Advances]_vars

\* A batch holds a rejected record, a completed one and one failed in upload.
C5_Witness ==
    \E c \in Activations : \E i, j, k \in DOMAIN act[c].uploadFiles :
        /\ ~Valid(act[c], i)
        /\ act[c].uploadFiles[j].status = "completed"
        /\ Attempted(act[c], k) /\ act[c].uploadFiles[k].status = "error"

AllRecords ==
    {<<c, i>> \in Activations \X (1..MaxFiles) : i \in DOMAIN act[c].uploadFiles}
Record(r) == act[r[1]].uploadFiles[r[2]]

\* C6 as stated: progress is in 0..100 and is 100 exactly when the record
\* is completed.
C6_Original ==
    \A r \in AllRecords :
        /\ Record(r).progress \in 0..100
        /\ Record(r).progress = 100 <=> Record(r).status = "completed"

\* C6 amended: progress is in 0..100; a completed record has progress 100;
\* a record that is not completed has the rounded percentage of the bytes
\* its last progress event reported (0 before any), which is 100 already
\* when that event reported them all.
C6_CompletedHasFullProgress ==
    \A r \in AllRecords :
        /\ Record(r).progress \in 0..100
        /\ Record(r).status = "completed" => Record(r).progress = 100
        /\ Record(r).status # "completed" =>
              Record(r).progress =
                 IF act[r[1]].up[r[2]].loaded = 0 THEN 0
                 ELSE RoundPercent(act[r[1]].up[r[2]].loaded,
                                   act[r[1]].files[r[2]].size)

\* A record completed although its last progress event reported 50.
C6_Witness ==
    \E r \in AllRecords :
        /\ Record(r).status = "completed"
        /\ \E p \in Places(act[r[1]], {"upload-progress"}, r[2]) :
              act[r[1]].log[p].progress = 50
        /\ \A p \in Places(act[r[1]], {"upload-progress"}, r[2]) :
              act[r[1]].log[p].progress < 100

\* C7 as stated: once a record's status has left pending, exactly one of
\* "no upload was attempted" and "s3Key is set" holds.
C7_Original ==
    \A r \in AllRecords :
        Record(r).status # "pending" =>
           (~Attempted(act[r[1]], r[2])) # (Record(r).s3Key # Undefined)

\* C7 amended: s3Key is absent on a record that was never attempted, whose
\* destination request is still out, or whose destination request failed;
\* from the moment the response body is read it is the key of that body.
C7_KeyFromResponse ==
    \A r \in AllRecords :
        LET u == act[r[1]].up[r[2]] IN
        /\ ~Attempted(act[r[1]], r[2]) => Record(r).s3Key = Undefined
        /\ Places(act[r[1]], {"PUT"}, r[2]) = {} => Record(r).s3Key = Undefined
        /\ Places(act[r[1]], {"PUT"}, r[2]) # {} => Record(r).s3Key = u.key

\* A transfer is under way for a record that carries the key of the response.
C7_Witness ==
    \E r \in AllRecords :
        /\ Record(r).status = "uploading"
        /\ Record(r).s3Key = "uploads/key"

\* The destination request of record r answered with a non-2xx status or
\* with a body that is not JSON or lacks uploadUrl or key.
BadDestination(r) ==
    LET u == act[r[1]].up[r[2]] IN
    \/ u.answer \in {"notOk", "notJSON", "null"}
    \/ u.pc \in {"xhr", "returned"} /\ u.answer = "ok"
         /\ (u.uploadUrl = Undefined \/ u.key = Undefined)

\* C8: after a non-2xx or malformed answer of the destination request the
\* record is in error with a message, upload-error was emitted, and no PUT
\* is made for it.
C8_BadDestinationFails ==
    \A r \in AllRecords :
        BadDestination(r) =>
           /\ Record(r).status = "error"
           /\ Record(r).error # Undefined
           /\ Places(act[r[1]], {"upload-error"}, r[2]) # {}
           /\ Places(act[r[1]], {"PUT"}, r[2]) = {}

----------------------------------------------------------------------------
(* Claims about validateFile *)

\* What C9 says validateFile returns: the size message when maxFileSize is
\* set, 0 included, and the file is larger; else the type message when
\* allowedTypes is not empty and lacks the type; else nothing.
C9_Verdict(file, cfg) ==
    IF "maxFileSize" \in DOMAIN cfg /\ file.size > cfg.maxFileSize
    THEN SizeMessage(cfg)
    ELSE IF "allowedTypes" \in DOMAIN cfg /\ cfg.allowedTypes # <<>>
            /\ file.type \notin Range(cfg.allowedTypes)
    THEN TypeMessage(file)
    ELSE Null

\* C9: validateFile returns the first of the size message (maxFileSize set,
\* 0 included, and exceeded) and the type message (allowedTypes not empty
\* and lacking the type) that applies, and nothing when neither does.
C9_RulesInOrder ==
    validationError # Undefined =>
       validationError = C9_Verdict(candidate, config)

----------------------------------------------------------------------------
(* Claims about the table *)

Count(list, x) == Cardinality({k \in DOMAIN list : list[k] = x})

\* What C10 says keeps a record: an empty filter text, or the lower-cased
\* name, type or status containing the lower-cased filter text.
C10_Kept(upload) ==
    \/ filterText = <<>>
    \/ \E field \in {"name", "type", "status"} :
          includes(toLowerCase(upload[field]), toLowerCase(filterText))

\* C10: the projection holds each kept record as often as props.uploads does
\* (once), no other record, whatever the columns' filterable flags are.
C10_FilterKeepsMatches ==
    /\ Range(filteredAndSortedUploads) \subseteq Range(uploads)
    /\ \A upload \in TableRecords :
          Count(filteredAndSortedUploads, upload) =
             IF C10_Kept(upload) THEN Count(uploads, upload) ELSE 0

\* Scenario 4 and more: under the filter "PNG" a.png and A.PNG are shown and
\* b.txt is not, with columns none of which is filterable.
C10_Witness ==
    /\ filterText = <<"P", "N", "G">>
    /\ \A k \in DOMAIN columns : ~columns[k].filterable
    /\ {uploads[k].id : k \in DOMAIN uploads} = {"r1", "r2", "r3"}
    /\ {filteredAndSortedUploads[k].id : k \in DOMAIN filteredAndSortedUploads}
          = {"r1", "r3"}

\* The order of two records by the value of a field: the numbers of size
\* and uploadedAt by size, the strings of the other fields by localeCompare.
KeyOrder(x, y, key) ==
    IF key \in {"uploadedAt", "size"}
    THEN (IF x[key] < y[key] THEN -1 ELSE IF x[key] > y[key] THEN 1 ELSE 0)
    ELSE localeCompare(x[key], y[key])

\* The place of a record in props.uploads (ids are unique there).
PlaceIn(list, x) == CHOOSE k \in DOMAIN list : list[k].id = x.id

\* C11: the projection is ordered by the sort key, non-decreasing for asc
\* and non-increasing for desc, and in both directions records with equal
\* sort-key values stand in the order they have in props.uploads.
C11_SortedAndStable ==
    LET out == filteredAndSortedUploads IN
    /\ \A k \in 1..(Len(out) - 1) :
          IF sortDirection = "asc"
          THEN KeyOrder(out[k], out[k + 1], sortKey) <= 0
          ELSE KeyOrder(out[k], out[k + 1], sortKey) >= 0
    /\ \A i, j \in DOMAIN out :
          (i < j /\ out[i][sortKey] = out[j][sortKey]) =>
             PlaceIn(uploads, out[i]) < PlaceIn(uploads, out[j])

\* Sorted desc by uploadedAt, the two records of the same instant follow
\* the later one, in the order they were given.
C11_Witness ==
    /\ sortKey = "uploadedAt" /\ sortDirection = "desc"
    /\ [k \in DOMAIN uploads |-> uploads[k].id] = <<"r2", "r3", "r4">>
    /\ [k \in DOMAIN filteredAndSortedUploads |->
           filteredAndSortedUploads[k].id] = <<"r4", "r2", "r3">>

----------------------------------------------------------------------------
(* Claims about handleSort *)

\* The sort key and direction the table had before click n.
KeyBefore(n) == IF n = 1 THEN "uploadedAt" ELSE clicks[n - 1].sortKey
DirectionBefore(n) == IF n = 1 THEN "desc" ELSE clicks[n - 1].direction
Flip(direction) == IF direction = "asc" THEN "desc" ELSE "asc"

\* The number of most recent clicks, without a gap, on the current sort key.
RECURSIVE RunOn(_, _)
RunOn(n, key) ==
    IF n = 0 \/ clicks[n].key # key THEN 0 ELSE 1 + RunOn(n - 1, key)

\* Every click on the current sort key flipped the direction and kept the
\* key, every other click adopted its key with asc; and the direction is asc
\* exactly when the run of clicks on the current key is odd.
C12_ToggleAndParity ==
    /\ \A n \in DOMAIN clicks :
          IF clicks[n].key = KeyBefore(n)
          THEN /\ clicks[n].sortKey = KeyBefore(n)
               /\ clicks[n].direction = Flip(DirectionBefore(n))
          ELSE /\ clicks[n].sortKey = clicks[n].key
               /\ clicks[n].direction = "asc"
    /\ sortKey = KeyBefore(Len(clicks) + 1)
    /\ sortDirection = DirectionBefore(Len(clicks) + 1)
    /\ (sortDirection = "asc") <=> (RunOn(Len(clicks), sortKey) % 2 = 1)

\* C12 as stated: toggle and parity as above, and any two successive clicks
\* on one key restore the direction held before them.
C12_Original ==
    /\ C12_ToggleAndParity
    /\ \A n \in DOMAIN clicks :
          (n >= 2 /\ clicks[n].key = clicks[n - 1].key) =>
             clicks[n].direction = DirectionBefore(n - 1)

\* C12 amended: toggle and parity as above; two successive clicks on the
\* key that is the sort key before them restore the direction held before
\* them, two successive clicks on another key leave the direction desc.
C12_ToggleSort ==
    /\ C12_ToggleAndParity
    /\ \A n \in DOMAIN clicks :
          (n >= 2 /\ clicks[n].key = clicks[n - 1].key) =>
             clicks[n].direction =
                IF clicks[n].key = KeyBefore(n - 1)
                THEN DirectionBefore(n - 1)
                ELSE "desc"

\* Two successive clicks on a key that was not the sort key, made while the
\* direction was asc, have left it desc.
C12_Witness ==
    \E n \in DOMAIN clicks :
        /\ n >= 2 /\ clicks[n].key = clicks[n - 1].key
        /\ clicks[n].key # KeyBefore(n - 1)
        /\ DirectionBefore(n - 1) = "asc"
        /\ clicks[n].direction = "desc"

----------------------------------------------------------------------------
(* Claims about selections that overlap *)

\* The records of activation a with a network call outstanding.
InFlight(a) == {i \in DOMAIN a.up : a.up[i].pc \in {"fetch", "json", "xhr"}}
Running == {c \in Activations : act[c].pc = "running"}
AllUploading == {<<c, i>> \in Activations \X (1..MaxFiles) : i \in Uploading(act[c])}

\* C13 as stated: over the whole component at most one record is uploading,
\* and two selections never have network calls outstanding at the same time.
C13_Original ==
    /\ Cardinality(AllUploading) <= 1
    /\ Cardinality({c \in Activations : InFlight(act[c]) # {}}) <= 1

\* C13 amended: each handleFiles call has at most one record uploading, the
\* one whose network call is outstanding, and none once it has returned; so
\* the component has at most one record uploading per running handleFiles
\* call, not one overall.
C13_OnePerSelection ==
    /\ \A c \in Activations :
          /\ Cardinality(Uploading(act[c])) <= 1
          /\ InFlight(act[c]) = Uploading(act[c])
          /\ act[c].pc # "running" => Uploading(act[c]) = {}
    /\ Cardinality(AllUploading) <= Cardinality(Running)

\* Both selections have a record uploading with its transfer in flight, and
\* each has had a progress notification since the other one started.
C13_Witness ==
    \A c \in Activations :
        \E i \in Uploading(act[c]) :
            /\ act[c].up[i].pc = "xhr"
            /\ act[c].up[i].loaded > 0
            /\ Places(act[c], {"upload-progress"}, i) # {}

====
